---- MODULE Spec2Model ----
(***************************************************************************)
(* Model of src/bitnami.py: the h2c "bitnami" transform.                   *)
(*                                                                         *)
(* Python str values are sequences of Unicode code points, so that the     *)
(* substring tests, str.replace, str.strip, f-string concatenation and the *)
(* base64 / UTF-8 decoding of the source are computed, not assumed.        *)
(* Python dicts are functions; a key is present iff it is in the DOMAIN.   *)
(* Dict keys that the source only compares for equality (field names of a  *)
(* service record, keys of a Secret, environment variable names) are TLA+  *)
(* strings; service names and secret names, which the source takes apart,  *)
(* are code-point sequences.                                               *)
(***************************************************************************)
EXTENDS Integers, Sequences, FiniteSets, TLC

----------------------------------------------------------------------------
(* Bounds of the model                                                     *)

\* largest number of services in the Service Set
MaxServices ==
    3

\* number of times transform is applied to the same Service Set
MaxCalls ==
    2

\* largest number of parts in the name of a Redis service
MaxNameParts ==
    3

----------------------------------------------------------------------------
(* String literals of the source, as code-point sequences.                 *)

\* "bitnami"  (bitnami.py:34)
S_bitnami ==
    <<98, 105, 116, 110, 97, 109, 105>>
\* "redis"  (bitnami.py:164)
S_redis ==
    <<114, 101, 100, 105, 115>>
\* "postgresql"  (bitnami.py:166)
S_postgresql ==
    <<112, 111, 115, 116, 103, 114, 101, 115, 113, 108>>
\* "keycloak"  (bitnami.py:108, 110, 112, 168)
S_keycloak ==
    <<107, 101, 121, 99, 108, 111, 97, 107>>
\* "-redis-master"  (bitnami.py:53)
S_dash_redis_master ==
    <<45, 114, 101, 100, 105, 115, 45, 109, 97, 115, 116, 101, 114>>
\* "-master"  (bitnami.py:53)
S_dash_master ==
    <<45, 109, 97, 115, 116, 101, 114>>
\* "-redis"  (bitnami.py:54)
S_dash_redis ==
    <<45, 114, 101, 100, 105, 115>>
\* "-keycloak"  (bitnami.py:108, 110, 137)
S_dash_keycloak ==
    <<45, 107, 101, 121, 99, 108, 111, 97, 107>>
\* "-postgresql"  (bitnami.py:122)
S_dash_postgresql ==
    <<45, 112, 111, 115, 116, 103, 114, 101, 115, 113, 108>>
\* "keycloak-postgresql"  (bitnami.py:122, 123)
S_keycloak_postgresql ==
    <<107, 101, 121, 99, 108, 111, 97, 107, 45, 112, 111, 115, 116, 103, 114, 101, 115, 113, 108>>
\* "init-prepare-write-dirs"  (bitnami.py:137)
S_init_prepare_write_dirs ==
    <<105, 110, 105, 116, 45, 112, 114, 101, 112, 97, 114, 101, 45, 119, 114, 105, 116, 101, 45, 100, 105, 114, 115>>
\* "redis:7-alpine"  (bitnami.py:61)
S_redis_7_alpine ==
    <<114, 101, 100, 105, 115, 58, 55, 45, 97, 108, 112, 105, 110, 101>>
\* "redis-server"  (bitnami.py:67)
S_redis_server ==
    <<114, 101, 100, 105, 115, 45, 115, 101, 114, 118, 101, 114>>
\* "--requirepass"  (bitnami.py:69)
S_requirepass ==
    <<45, 45, 114, 101, 113, 117, 105, 114, 101, 112, 97, 115, 115>>
\* "./data"  (bitnami.py:75, 89)
S_default_volume_root ==
    <<46, 47, 100, 97, 116, 97>>
\* ":/data"  (bitnami.py:76)
S_data_mount ==
    <<58, 47, 100, 97, 116, 97>>
\* ":/bitnami/postgresql"  (bitnami.py:91)
S_pg_data_mount ==
    <<58, 47, 98, 105, 116, 110, 97, 109, 105, 47, 112, 111, 115, 116, 103, 114, 101, 115, 113, 108>>
\* "./secrets/"  (bitnami.py:94)
S_secrets_dir ==
    <<46, 47, 115, 101, 99, 114, 101, 116, 115, 47>>
\* ":/opt/bitnami/postgresql/secrets:ro"  (bitnami.py:94)
S_pg_secrets_mount ==
    <<58, 47, 111, 112, 116, 47, 98, 105, 116, 110, 97, 109, 105, 47, 112, 111, 115, 116, 103, 114, 101, 115, 113, 108, 47, 115, 101, 99, 114, 101, 116, 115, 58, 114, 111>>
\* "/"  (bitnami.py:76, 91)
S_slash ==
    <<47>>
\* "-"  (bitnami.py:108)
S_dash ==
    <<45>>

----------------------------------------------------------------------------
(* Python built-ins used by the source.                                    *)

\* pat occurs in s at (1-based) position i
StartsAt(s, i, pat) ==
    /\ i + Len(pat) - 1 <= Len(s)
    /\ SubSeq(s, i, i + Len(pat) - 1) = pat

\* Python `pat in s` on str
StrContains(s, pat) ==
    \E i \in 1..(Len(s) - Len(pat) + 1) : StartsAt(s, i, pat)

\* Python s.replace(old, ""), old non-empty: one left-to-right pass that
\* drops every non-overlapping occurrence; the result is not scanned again
RECURSIVE RemoveFrom(_, _, _)
RemoveFrom(s, old, i) ==
    IF i > Len(s) THEN <<>>
    ELSE IF StartsAt(s, i, old) THEN RemoveFrom(s, old, i + Len(old))
    ELSE <<s[i]>> \o RemoveFrom(s, old, i + 1)

StrRemoveAll(s, old) ==
    RemoveFrom(s, old, 1)

\* Python s.strip(chars) with a one-character chars
RECURSIVE StrStrip(_, _)
StrStrip(s, ch) ==
    IF Len(s) = 0 THEN s
    ELSE IF s[1] = ch[1] THEN StrStrip(Tail(s), ch)
    ELSE IF s[Len(s)] = ch[1] THEN StrStrip(SubSeq(s, 1, Len(s) - 1), ch)
    ELSE s

\* Python's None, and a value that is not None
None ==
    [some |-> FALSE]

Some(v) ==
    [some |-> TRUE, val |-> v]

\* truth value of an Optional[str]: None and "" are false
StrTruthy(o) ==
    o.some /\ Len(o.val) > 0

\* the empty dict
EmptyDict ==
    [k \in {} |-> <<>>]

\* d[k] = v
DictSet(d, k, v) ==
    [x \in DOMAIN d \cup {k} |-> IF x = k THEN v ELSE d[x]]

\* d.pop(k, None)
DictPop(d, k) ==
    [x \in DOMAIN d \ {k} |-> d[x]]

----------------------------------------------------------------------------
(* base64.b64decode(val).decode("utf-8")   (bitnami.py:25)                 *)

\* value of a character in the base64 alphabet, 64 for any other character
B64Val(c) ==
    IF c >= 65 /\ c <= 90 THEN c - 65
    ELSE IF c >= 97 /\ c <= 122 THEN c - 71
    ELSE IF c >= 48 /\ c <= 57 THEN c + 4
    ELSE IF c = 43 THEN 62
    ELSE IF c = 47 THEN 63
    ELSE 64

\* binascii.a2b_base64 in its default, non-strict mode: characters outside
\* the alphabet are skipped, '=' (61) ends the input once it completes a
\* quad, and input that ends inside a quad is an error
RECURSIVE A2B(_, _, _, _, _, _)
A2B(s, i, quad, left, pads, out) ==
    IF i > Len(s)
    THEN [ok |-> quad = 0, val |-> out]
    ELSE IF s[i] = 61
    THEN IF quad >= 2 /\ quad + pads + 1 >= 4
         THEN [ok |-> TRUE, val |-> out]
         ELSE A2B(s, i + 1, quad, left, IF quad >= 2 THEN pads + 1 ELSE pads, out)
    ELSE IF B64Val(s[i]) = 64
    THEN A2B(s, i + 1, quad, left, pads, out)
    ELSE LET c == B64Val(s[i]) IN
         CASE quad = 0 -> A2B(s, i + 1, 1, c, 0, out)
           [] quad = 1 -> A2B(s, i + 1, 2, c % 16, 0,
                              Append(out, left * 4 + (c \div 16)))
           [] quad = 2 -> A2B(s, i + 1, 3, c % 4, 0,
                              Append(out, left * 16 + (c \div 4)))
           [] quad = 3 -> A2B(s, i + 1, 0, 0, 0,
                              Append(out, left * 64 + c))

\* B64Decode as b64decode(val, validate=True) would be: any character
\* outside the alphabet, and any length that is not a multiple of 4, is an
\* error
B64Decode_Strict(s) ==
    IF \/ Len(s) % 4 # 0
       \/ \E j \in 1..Len(s) : s[j] # 61 /\ B64Val(s[j]) = 64
    THEN [ok |-> FALSE, val |-> <<>>]
    ELSE A2B(s, 1, 0, 0, 0, <<>>)

\* base64.b64decode(s) for a str s: a non-ASCII character is a ValueError
B64Decode(s) ==
    IF \E i \in 1..Len(s) : s[i] > 127
    THEN [ok |-> FALSE, val |-> <<>>]
    ELSE A2B(s, 1, 0, 0, 0, <<>>)

IsCont(b) ==
    b >= 128 /\ b <= 191

\* bytes.decode("utf-8"), strict: the code points, or a UnicodeDecodeError
RECURSIVE Utf8From(_, _, _)
Utf8From(b, i, out) ==
    IF i > Len(b) THEN [ok |-> TRUE, val |-> out]
    ELSE LET b0 == b[i]
             n  == Len(b) - i
             bad == [ok |-> FALSE, val |-> <<>>]
         IN
         IF b0 < 128 THEN Utf8From(b, i + 1, Append(out, b0))
         ELSE IF b0 >= 194 /\ b0 <= 223
         THEN IF n >= 1 /\ IsCont(b[i + 1])
              THEN Utf8From(b, i + 2,
                            Append(out, (b0 - 192) * 64 + (b[i + 1] - 128)))
              ELSE bad
         ELSE IF b0 >= 224 /\ b0 <= 239
         THEN IF /\ n >= 2
                 /\ IsCont(b[i + 1])
                 /\ IsCont(b[i + 2])
                 /\ (b0 = 224 => b[i + 1] >= 160)
                 /\ (b0 = 237 => b[i + 1] <= 159)
              THEN Utf8From(b, i + 3,
                            Append(out, (b0 - 224) * 4096
                                        + (b[i + 1] - 128) * 64
                                        + (b[i + 2] - 128)))
              ELSE bad
         ELSE IF b0 >= 240 /\ b0 <= 244
         THEN IF /\ n >= 3
                 /\ IsCont(b[i + 1])
                 /\ IsCont(b[i + 2])
                 /\ IsCont(b[i + 3])
                 /\ (b0 = 240 => b[i + 1] >= 144)
                 /\ (b0 = 244 => b[i + 1] <= 143)
              THEN Utf8From(b, i + 4,
                            Append(out, (b0 - 240) * 262144
                                        + (b[i + 1] - 128) * 4096
                                        + (b[i + 2] - 128) * 64
                                        + (b[i + 3] - 128)))
              ELSE bad
         ELSE bad

Utf8Decode(b) ==
    Utf8From(b, 1, <<>>)

\* the try block of _secret_value: the decoded text, or not ok when
\* b64decode raises ValueError or decode raises UnicodeDecodeError
B64Text(val) ==
    LET raw == B64Decode(val) IN
    IF raw.ok THEN Utf8Decode(raw.val) ELSE [ok |-> FALSE, val |-> <<>>]

----------------------------------------------------------------------------
(* Helpers of bitnami.py                                                   *)

\* secret.get(sub) or {}
SubMapping(secret, sub) ==
    IF sub \in DOMAIN secret THEN secret[sub] ELSE EmptyDict

\* _secret_value(secret, key)
_secret_value(secret, key) ==
    LET sd == SubMapping(secret, "stringData")
        da == SubMapping(secret, "data")
    IN
    IF key \in DOMAIN sd THEN Some(sd[key])
    ELSE IF key \in DOMAIN da
    THEN LET txt == B64Text(da[key]) IN
         IF txt.ok THEN Some(txt.val) ELSE Some(da[key])
    ELSE None

\* svc.get("image", "")
ImageOf(svc) ==
    IF "image" \in DOMAIN svc THEN svc["image"] ELSE <<>>

\* _is_bitnami_image(svc, name_fragment)
_is_bitnami_image(svc, name_fragment) ==
    /\ StrContains(ImageOf(svc), S_bitnami)
    /\ StrContains(ImageOf(svc), name_fragment)

\* _find_secret(secrets, candidates): (name, secrets[name]) or (None, None)
RECURSIVE _find_secret(_, _)
_find_secret(secrets, candidates) ==
    IF Len(candidates) = 0 THEN [found |-> FALSE]
    ELSE IF Head(candidates) \in DOMAIN secrets
    THEN [found |-> TRUE, name |-> Head(candidates),
          secret |-> secrets[Head(candidates)]]
    ELSE _find_secret(secrets, Tail(candidates))

\* truth value of a dict: the empty dict is false  (`if secret:`)
DictTruthy(d) ==
    DOMAIN d # {}

\* ctx.config.get("volume_root", "./data")
VolumeRoot(ctx) ==
    IF "volume_root" \in DOMAIN ctx.config
    THEN ctx.config["volume_root"]
    ELSE S_default_volume_root

\* ctx.config.get("overrides", {}): only membership of a name is used
UserOverrides(ctx) ==
    IF "overrides" \in DOMAIN ctx.config THEN ctx.config["overrides"] ELSE {}

\* one line written by _log: the text before the colon, the message, and
\* the interpolated value if the message has one
LogLine(who, msg, arg) ==
    [who |-> who, msg |-> msg, arg |-> arg]

\* the value of `key` in the first candidate secret, None when no candidate
\* exists or the secret found is empty (`if secret:`)
LookupPassword(secrets, candidates, key) ==
    LET f == _find_secret(secrets, candidates) IN
    IF f.found /\ DictTruthy(f.secret) THEN _secret_value(f.secret, key) ELSE None

----------------------------------------------------------------------------
(* Redis   (bitnami.py:49-80)                                              *)

\* prefix = svc_name.replace("-redis-master", "").replace("-master", "")
RedisPrefix(svc_name) ==
    StrRemoveAll(StrRemoveAll(svc_name, S_dash_redis_master), S_dash_master)

\* candidates = [f"{prefix}-redis", prefix, svc_name]
RedisCandidates(svc_name) ==
    <<RedisPrefix(svc_name) \o S_dash_redis, RedisPrefix(svc_name), svc_name>>

\* RedisCommand with `if password is not None` for `if password`
RedisCommand_NoTruthCheck(password) ==
    IF password.some
    THEN <<S_redis_server, S_requirepass, password.val>>
    ELSE <<S_redis_server>>

\* cmd = ["redis-server"], extended by ["--requirepass", password] if password
RedisCommand(password) ==
    IF StrTruthy(password)
    THEN <<S_redis_server, S_requirepass, password.val>>
    ELSE <<S_redis_server>>

\* f"{volume_root}/{svc_name}:/data"
RedisVolume(svc_name, ctx) ==
    VolumeRoot(ctx) \o S_slash \o svc_name \o S_data_mount

\* the record _fix_redis leaves in svc
RedisRecord(svc_name, svc, ctx) ==
    LET password == LookupPassword(ctx.secrets, RedisCandidates(svc_name),
                                   "redis-password")
        s1 == DictSet(svc, "image", S_redis_7_alpine)
        s2 == DictPop(s1, "entrypoint")
        s3 == DictSet(s2, "command", RedisCommand(password))
        s4 == DictSet(s3, "volumes", <<RedisVolume(svc_name, ctx)>>)
    IN  DictPop(s4, "environment")

\* the lines _fix_redis logs, in order
RedisLog(svc_name, ctx) ==
    LET f == _find_secret(ctx.secrets, RedisCandidates(svc_name))
        password == LookupPassword(ctx.secrets, RedisCandidates(svc_name),
                                   "redis-password")
    IN  << LogLine(svc_name, "image -> redis:7-alpine", <<>>),
           LogLine(svc_name, "removed Bitnami entrypoint", <<>>),
           IF StrTruthy(password)
           THEN LogLine(svc_name, "password set from Secret", f.name)
           ELSE LogLine(svc_name, "no redis-password found, running without auth", <<>>),
           LogLine(svc_name, "volume ->", RedisVolume(svc_name, ctx)),
           LogLine(svc_name, "removed Bitnami environment", <<>>) >>

\* _fix_redis(svc_name, svc, ctx): svc is changed in place
_fix_redis(svc_name, svc, ctx) ==
    [svc |-> RedisRecord(svc_name, svc, ctx), log |-> RedisLog(svc_name, ctx)]

----------------------------------------------------------------------------
(* PostgreSQL   (bitnami.py:87-97)                                         *)

\* the list built in `volumes`
PostgresVolumes(svc_name, ctx) ==
    << VolumeRoot(ctx) \o S_slash \o svc_name \o S_pg_data_mount,
       S_secrets_dir \o svc_name \o S_pg_secrets_mount >>

\* _fix_postgresql with the two mounts added to the volumes the service has
_fix_postgresql_Extend(svc_name, svc, ctx) ==
    [svc |-> DictSet(svc, "volumes",
                     (IF "volumes" \in DOMAIN svc THEN svc["volumes"] ELSE <<>>)
                     \o PostgresVolumes(svc_name, ctx)),
     log |-> << LogLine(svc_name, "data volume -> /bitnami/postgresql", <<>>),
                LogLine(svc_name, "secrets mount -> /opt/bitnami/postgresql/secrets", <<>>) >>]

\* _fix_postgresql(svc_name, svc, ctx)
_fix_postgresql(svc_name, svc, ctx) ==
    [svc |-> DictSet(svc, "volumes", PostgresVolumes(svc_name, ctx)),
     log |-> << LogLine(svc_name, "data volume -> /bitnami/postgresql", <<>>),
                LogLine(svc_name, "secrets mount -> /opt/bitnami/postgresql/secrets", <<>>) >>]

----------------------------------------------------------------------------
(* Keycloak   (bitnami.py:104-141)                                         *)

\* prefix = svc_name.replace("-keycloak", "").replace("keycloak", "").strip("-")
KeycloakPrefix(svc_name) ==
    StrStrip(StrRemoveAll(StrRemoveAll(svc_name, S_dash_keycloak), S_keycloak),
             S_dash)

\* sec_candidates
KeycloakSecCandidates(svc_name) ==
    IF Len(KeycloakPrefix(svc_name)) > 0
    THEN <<KeycloakPrefix(svc_name) \o S_dash_keycloak, svc_name, S_keycloak>>
    ELSE <<svc_name, S_keycloak>>

\* db_candidates
KeycloakDbCandidates(svc_name) ==
    << IF Len(KeycloakPrefix(svc_name)) > 0
       THEN KeycloakPrefix(svc_name) \o S_dash_postgresql
       ELSE S_keycloak_postgresql,
       S_keycloak_postgresql >>

\* svc.setdefault("environment", {})[var] = value
SetEnv(svc, var, value) ==
    DictSet(svc, "environment",
            DictSet(IF "environment" \in DOMAIN svc
                    THEN svc["environment"] ELSE EmptyDict,
                    var, value))

\* InjectPassword with `if pw is not None` for `if pw`
InjectPassword_NoTruthCheck(acc, svc_name, secrets, candidates, key, var) ==
    LET pw == LookupPassword(secrets, candidates, key) IN
    IF pw.some
    THEN [svc |-> SetEnv(acc.svc, var, pw.val),
          log |-> Append(acc.log,
                         LogLine(svc_name, var,
                                 _find_secret(secrets, candidates).name))]
    ELSE acc

\* one of the two blocks of _fix_keycloak: look the password up and, if it
\* is there, put it in the environment and log "<var> set from Secret '<name>'"
InjectPassword(acc, svc_name, secrets, candidates, key, var) ==
    LET pw == LookupPassword(secrets, candidates, key) IN
    IF StrTruthy(pw)
    THEN [svc |-> SetEnv(acc.svc, var, pw.val),
          log |-> Append(acc.log,
                         LogLine(svc_name, var,
                                 _find_secret(secrets, candidates).name))]
    ELSE acc

\* _fix_keycloak(svc_name, svc, ctx)
_fix_keycloak(svc_name, svc, ctx) ==
    InjectPassword(
        InjectPassword([svc |-> svc, log |-> <<>>], svc_name, ctx.secrets,
                       KeycloakSecCandidates(svc_name),
                       "admin-password", "KC_BOOTSTRAP_ADMIN_PASSWORD"),
        svc_name, ctx.secrets, KeycloakDbCandidates(svc_name),
        "password", "KC_DB_PASSWORD")

\* IsInitOf with the service name as it is, "-keycloak" not removed
IsInitOf_NoStrip(svc_name, name) ==
    /\ StrContains(name, svc_name)
    /\ StrContains(name, S_init_prepare_write_dirs)

\* the test of _fix_keycloak_init on one name of compose_services
IsInitOf(svc_name, name) ==
    /\ StrContains(name, StrRemoveAll(svc_name, S_dash_keycloak))
    /\ StrContains(name, S_init_prepare_write_dirs)

\* the sequence `order` without the elements that satisfy Drop
RECURSIVE SeqWithout(_, _)
SeqWithout(order, drop) ==
    IF Len(order) = 0 THEN <<>>
    ELSE IF Head(order) \in drop THEN SeqWithout(Tail(order), drop)
    ELSE <<Head(order)>> \o SeqWithout(Tail(order), drop)

\* to_remove of _fix_keycloak_init, in the dict's order
ToRemove(svc_name, order) ==
    SeqWithout(order, {n \in {order[j] : j \in 1..Len(order)} :
                          ~IsInitOf(svc_name, n)})

\* _fix_keycloak_init(svc_name, compose_services): the dict (its mapping and
\* its key order) after the deletions, and the lines logged
_fix_keycloak_init(svc_name, services, order) ==
    LET gone == ToRemove(svc_name, order)
        goneSet == {gone[j] : j \in 1..Len(gone)}
    IN  [services |-> [n \in DOMAIN services \ goneSet |-> services[n]],
         order |-> SeqWithout(order, goneSet),
         log |-> [j \in 1..Len(gone) |->
                     LogLine(gone[j], "removed (emptyDir copy fails in compose)", <<>>)]]

----------------------------------------------------------------------------
(* BitnamiWorkarounds.transform   (bitnami.py:154-170)                     *)

\* Family with the chain in the order keycloak, postgresql, redis
Family_KeycloakFirst(svc) ==
    IF _is_bitnami_image(svc, S_keycloak) THEN "keycloak"
    ELSE IF _is_bitnami_image(svc, S_postgresql) THEN "postgresql"
    ELSE IF _is_bitnami_image(svc, S_redis) THEN "redis"
    ELSE "none"

\* Family with `else` for the last `elif`: what is neither redis nor
\* postgresql is handled as keycloak
Family_ElseKeycloak(svc) ==
    IF _is_bitnami_image(svc, S_redis) THEN "redis"
    ELSE IF _is_bitnami_image(svc, S_postgresql) THEN "postgresql"
    ELSE "keycloak"

\* the family whose repair transform dispatches to: the if / elif chain
Family(svc) ==
    IF _is_bitnami_image(svc, S_redis) THEN "redis"
    ELSE IF _is_bitnami_image(svc, S_postgresql) THEN "postgresql"
    ELSE IF _is_bitnami_image(svc, S_keycloak) THEN "keycloak"
    ELSE "none"

\* list(compose_services): the names in the dict's order when the loop starts
Snapshot(order) ==
    order

VARIABLES
    compose_services,   \* the Service Set: name -> service record
    order,              \* the insertion order of compose_services' keys
    ctx,                \* the Run Context: [secrets, config]
    names,              \* the list the for loop iterates over
    i,                  \* position of the loop in names (1-based)
    pc,                 \* "idle", "loop", "done" (returned), "raised" (KeyError)
    log,                \* the lines written by _log, in order
    calls,              \* number of invocations of transform so far
    before,             \* compose_services when the current invocation began
    sv                  \* a call of _secret_value: [secret, key, ret]

vars ==
    <<compose_services, order, ctx, names, i, pc, log, calls, before, sv>>

\* the service name the loop is at
Cur ==
    names[i]

InLoop ==
    pc = "loop" /\ i <= Len(names)

\* the call of transform: user_overrides is read and the snapshot is taken
Call ==
    /\ pc = "idle"
    /\ pc' = "loop"
    /\ names' = Snapshot(order)
    /\ i' = 1
    /\ calls' = calls + 1
    /\ before' = compose_services
    /\ UNCHANGED <<compose_services, order, ctx, log, sv>>

\* `if svc_name in user_overrides: continue`
Skip ==
    /\ InLoop
    /\ Cur \in UserOverrides(ctx)
    /\ i' = i + 1
    /\ UNCHANGED <<compose_services, order, ctx, names, pc, log, calls, before, sv>>

\* `svc = compose_services[svc_name]` on a name deleted earlier in the loop
KeyError ==
    /\ InLoop
    /\ Cur \notin UserOverrides(ctx)
    /\ Cur \notin DOMAIN compose_services
    /\ pc' = "raised"
    /\ UNCHANGED <<compose_services, order, ctx, names, i, log, calls, before, sv>>

\* the loop reaches a service that is present and not overridden
Handles(family) ==
    /\ InLoop
    /\ Cur \notin UserOverrides(ctx)
    /\ Cur \in DOMAIN compose_services
    /\ Family(compose_services[Cur]) = family

FixRedis ==
    /\ Handles("redis")
    /\ LET r == _fix_redis(Cur, compose_services[Cur], ctx) IN
       /\ compose_services' = [compose_services EXCEPT ![Cur] = r.svc]
       /\ log' = log \o r.log
    /\ i' = i + 1
    /\ UNCHANGED <<order, ctx, names, pc, calls, before, sv>>

FixPostgresql ==
    /\ Handles("postgresql")
    /\ LET r == _fix_postgresql(Cur, compose_services[Cur], ctx) IN
       /\ compose_services' = [compose_services EXCEPT ![Cur] = r.svc]
       /\ log' = log \o r.log
    /\ i' = i + 1
    /\ UNCHANGED <<order, ctx, names, pc, calls, before, sv>>

FixKeycloak ==
    /\ Handles("keycloak")
    /\ LET r == _fix_keycloak(Cur, compose_services[Cur], ctx)
           d == _fix_keycloak_init(
                    Cur, [compose_services EXCEPT ![Cur] = r.svc], order)
       IN
       /\ compose_services' = d.services
       /\ order' = d.order
       /\ log' = log \o r.log \o d.log
    /\ i' = i + 1
    /\ UNCHANGED <<ctx, names, pc, calls, before, sv>>

\* no branch of the if / elif chain is taken
NoMatch ==
    /\ Handles("none")
    /\ i' = i + 1
    /\ UNCHANGED <<compose_services, order, ctx, names, pc, log, calls, before, sv>>

\* the loop is exhausted and transform returns
Return ==
    /\ pc = "loop"
    /\ i > Len(names)
    /\ pc' = "done"
    /\ UNCHANGED <<compose_services, order, ctx, names, i, log, calls, before, sv>>

----------------------------------------------------------------------------
(* Inputs of the transform specification                                   *)

\* "auth-keycloak"
N_auth_keycloak ==
    <<97, 117, 116, 104, 45, 107, 101, 121, 99, 108, 111, 97, 107>>
\* "auth-init-prepare-write-dirs"
N_auth_init ==
    <<97, 117, 116, 104, 45, 105, 110, 105, 116, 45, 112, 114, 101, 112, 97, 114, 101, 45, 119, 114, 105, 116, 101, 45, 100, 105, 114, 115>>
\* "db-postgresql"
N_db_postgresql ==
    <<100, 98, 45, 112, 111, 115, 116, 103, 114, 101, 115, 113, 108>>
\* "cache-redis-master"
N_cache_redis_master ==
    <<99, 97, 99, 104, 101, 45, 114, 101, 100, 105, 115, 45, 109, 97, 115, 116, 101, 114>>
\* "bitnami/keycloak:23"
I_keycloak ==
    <<98, 105, 116, 110, 97, 109, 105, 47, 107, 101, 121, 99, 108, 111, 97, 107, 58, 50, 51>>
\* "bitnami/postgresql:16"
I_postgresql ==
    <<98, 105, 116, 110, 97, 109, 105, 47, 112, 111, 115, 116, 103, 114, 101, 115, 113, 108, 58, 49, 54>>
\* "bitnami/redis:7.2"
I_redis ==
    <<98, 105, 116, 110, 97, 109, 105, 47, 114, 101, 100, 105, 115, 58, 55, 46, 50>>
\* "nginx:1.25"
I_nginx ==
    <<110, 103, 105, 110, 120, 58, 49, 46, 50, 53>>
\* "/opt/bitnami/scripts/entrypoint.sh"
V_entrypoint ==
    <<47, 111, 112, 116, 47, 98, 105, 116, 110, 97, 109, 105, 47, 115, 99, 114, 105, 112, 116, 115, 47, 101, 110, 116, 114, 121, 112, 111, 105, 110, 116, 46, 115, 104>>
\* "/run.sh"
V_command ==
    <<47, 114, 117, 110, 46, 115, 104>>
\* "old-data:/bitnami"
V_volume ==
    <<111, 108, 100, 45, 100, 97, 116, 97, 58, 47, 98, 105, 116, 110, 97, 109, 105>>
\* "true"
V_debug ==
    <<116, 114, 117, 101>>
\* "always"
V_always ==
    <<97, 108, 119, 97, 121, 115>>
\* "/srv"
V_srv ==
    <<47, 115, 114, 118>>
\* "s3cret"
V_s3cret ==
    <<115, 51, 99, 114, 101, 116>>
\* "adminpw"
V_adminpw ==
    <<97, 100, 109, 105, 110, 112, 119>>
\* "dbpw"
V_dbpw ==
    <<100, 98, 112, 119>>
\* "cache-redis"
N_cache_redis ==
    <<99, 97, 99, 104, 101, 45, 114, 101, 100, 105, 115>>

\* a service record that has every field the transform touches, and one
\* ("restart") that it does not
FullRecord(image) ==
    [image |-> image,
     entrypoint |-> <<V_entrypoint>>,
     command |-> <<V_command>>,
     volumes |-> <<V_volume>>,
     environment |-> [BITNAMI_DEBUG |-> V_debug],
     restart |-> V_always]

\* a service record with nothing but its image
BareRecord(image) ==
    [image |-> image]

StringData(key, value) ==
    [kind |-> "Secret", stringData |-> (key :> value)]

\* the Secret Store of the end-to-end scenarios A and C
ScenarioSecrets ==
    (N_cache_redis :> StringData("redis-password", V_s3cret))
    @@ (N_auth_keycloak :> StringData("admin-password", V_adminpw))
    @@ (S_keycloak_postgresql :> StringData("password", V_dbpw))

ServiceNames ==
    {N_auth_keycloak, N_auth_init, N_db_postgresql, N_cache_redis_master}

Images ==
    {I_keycloak, I_postgresql, I_redis, I_nginx}

\* the sequences of distinct names, of 1 to MaxServices names
NameLists ==
    {o \in UNION {[1..n -> ServiceNames] : n \in 1..MaxServices} :
        \A a, b \in 1..Len(o) : a # b => o[a] # o[b]}

OverrideSets ==
    {{}, {N_auth_init}, {N_auth_keycloak}, {N_db_postgresql}}

\* a configuration with the given overrides, and with volume_root "/srv" or
\* without the option
Config(ov, withRoot) ==
    IF withRoot
    THEN [overrides |-> ov, volume_root |-> V_srv]
    ELSE [overrides |-> ov]

Range(f) ==
    {f[x] : x \in DOMAIN f}

\* everything but the Service Set and the Run Context
InitControl ==
    /\ names = <<>>
    /\ i = 1
    /\ pc = "idle"
    /\ log = <<>>
    /\ calls = 0
    /\ before = EmptyDict
    /\ sv = [secret |-> EmptyDict, key |-> "", ret |-> None]

\* Service Sets of up to MaxServices of the four names in every order, each
\* with any of the four images; the secrets of scenarios A and C
Init ==
    /\ InitControl
    /\ order \in NameLists
    /\ \E img \in [Range(order) -> Images] :
          compose_services = [n \in Range(order) |-> FullRecord(img[n])]
    /\ \E ov \in OverrideSets :
          ctx = [secrets |-> ScenarioSecrets, config |-> Config(ov, FALSE)]

Next ==
    \/ Call
    \/ Skip
    \/ KeyError
    \/ FixRedis
    \/ FixPostgresql
    \/ FixKeycloak
    \/ NoMatch
    \/ Return

Spec ==
    Init /\ [][Next]_vars

----------------------------------------------------------------------------
(* Vocabulary of the properties                                            *)

\* the image reference names the family: it contains "bitnami" and fragment
ImageHas(svc, fragment) ==
    /\ "image" \in DOMAIN svc
    /\ StrContains(svc["image"], S_bitnami)
    /\ StrContains(svc["image"], fragment)

MatchesNoFamily(svc) ==
    /\ ~ImageHas(svc, S_redis)
    /\ ~ImageHas(svc, S_postgresql)
    /\ ~ImageHas(svc, S_keycloak)

\* the image is one the keycloak branch is taken for
KeycloakBranch(svc) ==
    /\ ImageHas(svc, S_keycloak)
    /\ ~ImageHas(svc, S_redis)
    /\ ~ImageHas(svc, S_postgresql)

\* the name contains the marker and the keycloak-stripped fragment of s
CompanionOf(name, s) ==
    /\ StrContains(name, S_init_prepare_write_dirs)
    /\ StrContains(name, StrRemoveAll(s, S_dash_keycloak))

\* an invocation of transform is under way or over
Called ==
    pc \in {"loop", "done", "raised"}

\* the names the loop of the current invocation has gone past
Passed ==
    {names[j] : j \in 1..(i - 1)}

\* the Keycloak services the current invocation has handled so far: a name
\* the loop went past was there when it was reached, and no step changes
\* the image of a service that is not in the redis family
HandledKeycloaks ==
    {k \in Passed : /\ k \notin UserOverrides(ctx)
                    /\ KeycloakBranch(before[k])}

\* the step handles the service the loop is at (no skip, no KeyError)
HandleStep ==
    /\ InLoop
    /\ Cur \notin UserOverrides(ctx)
    /\ Cur \in DOMAIN compose_services
    /\ i' = i + 1

----------------------------------------------------------------------------
(* C1  A service named in user-overrides is still in the Service Set, with *)
(* the record it had before the call, whatever its image and its name.     *)
(* The code deletes an overridden service whose name marks it as the init  *)
(* companion of a Keycloak service it handles.                             *)
C1_OverriddenUntouched ==
    Called =>
        \A n \in UserOverrides(ctx) \cap DOMAIN before :
            /\ n \in DOMAIN compose_services
            /\ compose_services[n] = before[n]

----------------------------------------------------------------------------
(* C2  As claimed: a service whose image matches none of the three         *)
(* families is still in the Service Set with the record it had before the  *)
(* call, whatever other services are in the set.                           *)
C2_NoFamilyUntouched ==
    Called =>
        \A n \in DOMAIN before :
            MatchesNoFamily(before[n]) =>
                /\ n \in DOMAIN compose_services
                /\ compose_services[n] = before[n]

(* C2, amended: the record of a service whose image matches no family is   *)
(* never changed, and the service is in the Service Set unless its name    *)
(* contains "init-prepare-write-dirs" and the fragment of a non-overridden *)
(* Bitnami Keycloak service the call has handled: then it is deleted.      *)
C2_NoFamilyUntouchedUnlessInit ==
    Called =>
        \A n \in DOMAIN before :
            MatchesNoFamily(before[n]) =>
                /\ n \in DOMAIN compose_services
                       => compose_services[n] = before[n]
                /\ n \notin DOMAIN compose_services
                       <=> \E k \in HandledKeycloaks : CompanionOf(n, k)

\* a call that returned after deleting a service whose image matches no
\* family, and leaving alone another one
C2_Witness ==
    /\ pc = "done"
    /\ \E n \in DOMAIN before :
          /\ MatchesNoFamily(before[n])
          /\ n \notin DOMAIN compose_services
    /\ \E n \in DOMAIN before :
          /\ MatchesNoFamily(before[n])
          /\ n \in DOMAIN compose_services

----------------------------------------------------------------------------
(* C3  transform runs to completion without raising on every well-formed   *)
(* Service Set and every order of its names.  The code raises KeyError     *)
(* when the snapshot holds, after a Keycloak service, a service that the   *)
(* Keycloak step deleted.                                                  *)
C3_NeverRaises ==
    pc # "raised"

----------------------------------------------------------------------------
(* C4  As claimed: when a non-overridden Bitnami Keycloak service S is     *)
(* handled, exactly the entries whose name contains the fragment of S and  *)
(* the marker are deleted, and S itself stays in the Service Set.          *)
C4_InitRemovedKeycloakStays ==
    [][ (HandleStep /\ KeycloakBranch(compose_services[Cur])) =>
            /\ DOMAIN compose_services' =
                   {n \in DOMAIN compose_services : ~CompanionOf(n, Cur)}
            /\ Cur \in DOMAIN compose_services' ]_vars

(* C4, amended: exactly the entries whose name contains the fragment of S  *)
(* and the marker are deleted; S itself stays unless its own name contains *)
(* both its fragment and the marker.                                       *)
C4_InitRemoved ==
    [][ (HandleStep /\ KeycloakBranch(compose_services[Cur])) =>
            /\ DOMAIN compose_services' =
                   {n \in DOMAIN compose_services : ~CompanionOf(n, Cur)}
            /\ Cur \in DOMAIN compose_services' <=> ~CompanionOf(Cur, Cur) ]_vars

\* a Keycloak service has been handled: its init companion is gone, and
\* a service that is not its companion is still there
C4_Witness ==
    /\ pc = "loop"
    /\ \E k \in HandledKeycloaks :
          /\ k \in DOMAIN compose_services
          /\ \E n \in DOMAIN before :
                CompanionOf(n, k) /\ n \notin DOMAIN compose_services
          /\ \E n \in DOMAIN before \ {k} :
                ~CompanionOf(n, k) /\ n \in DOMAIN compose_services

----------------------------------------------------------------------------
(* Specification SpecAgain: transform applied again to its own output      *)

\* transform is applied again to its own output
CallAgain ==
    /\ pc = "done"
    /\ calls < MaxCalls
    /\ pc' = "loop"
    /\ names' = Snapshot(order)
    /\ i' = 1
    /\ calls' = calls + 1
    /\ before' = compose_services
    /\ UNCHANGED <<compose_services, order, ctx, log, sv>>

\* a PostgreSQL service, alone or with one other service before or after it
InitAgain ==
    /\ InitControl
    /\ \E pn \in {N_db_postgresql, N_auth_init},
          rec \in {FullRecord(I_postgresql), BareRecord(I_postgresql)},
          withRoot \in BOOLEAN :
          \/ /\ order = <<pn>>
             /\ compose_services = (pn :> rec)
             /\ ctx = [secrets |-> ScenarioSecrets, config |-> Config({}, withRoot)]
          \/ \E on \in ServiceNames \ {pn}, img \in Images :
                /\ order \in {<<pn, on>>, <<on, pn>>}
                /\ compose_services = (pn :> rec) @@ (on :> FullRecord(img))
                /\ \E ov \in {{}, {on}} :
                      ctx = [secrets |-> ScenarioSecrets,
                             config |-> Config(ov, withRoot)]

NextAgain ==
    \/ Call
    \/ Skip
    \/ KeyError
    \/ FixRedis
    \/ FixPostgresql
    \/ FixKeycloak
    \/ NoMatch
    \/ Return
    \/ CallAgain

SpecAgain ==
    InitAgain /\ [][NextAgain]_vars

\* the field is in both records with one value, or in neither
FieldSame(a, b, f) ==
    /\ f \in DOMAIN a <=> f \in DOMAIN b
    /\ f \in DOMAIN a => a[f] = b[f]

\* the image is one the postgresql branch is taken for
PostgresBranch(svc) ==
    /\ ImageHas(svc, S_postgresql)
    /\ ~ImageHas(svc, S_redis)

\* "./data/db-postgresql:/bitnami/postgresql"
X_pg_db_default_data ==
    <<46, 47, 100, 97, 116, 97, 47, 100, 98, 45, 112, 111, 115, 116, 103, 114, 101, 115, 113, 108, 58, 47, 98, 105, 116, 110, 97, 109, 105, 47, 112, 111, 115, 116, 103, 114, 101, 115, 113, 108>>
\* "/srv/db-postgresql:/bitnami/postgresql"
X_pg_db_srv_data ==
    <<47, 115, 114, 118, 47, 100, 98, 45, 112, 111, 115, 116, 103, 114, 101, 115, 113, 108, 58, 47, 98, 105, 116, 110, 97, 109, 105, 47, 112, 111, 115, 116, 103, 114, 101, 115, 113, 108>>
\* "./secrets/db-postgresql:/opt/bitnami/postgresql/secrets:ro"
X_pg_db_secrets ==
    <<46, 47, 115, 101, 99, 114, 101, 116, 115, 47, 100, 98, 45, 112, 111, 115, 116, 103, 114, 101, 115, 113, 108, 58, 47, 111, 112, 116, 47, 98, 105, 116, 110, 97, 109, 105, 47, 112, 111, 115, 116, 103, 114, 101, 115, 113, 108, 47, 115, 101, 99, 114, 101, 116, 115, 58, 114, 111>>
\* "./data/auth-init-prepare-write-dirs:/bitnami/postgresql"
X_pg_init_default_data ==
    <<46, 47, 100, 97, 116, 97, 47, 97, 117, 116, 104, 45, 105, 110, 105, 116, 45, 112, 114, 101, 112, 97, 114, 101, 45, 119, 114, 105, 116, 101, 45, 100, 105, 114, 115, 58, 47, 98, 105, 116, 110, 97, 109, 105, 47, 112, 111, 115, 116, 103, 114, 101, 115, 113, 108>>
\* "/srv/auth-init-prepare-write-dirs:/bitnami/postgresql"
X_pg_init_srv_data ==
    <<47, 115, 114, 118, 47, 97, 117, 116, 104, 45, 105, 110, 105, 116, 45, 112, 114, 101, 112, 97, 114, 101, 45, 119, 114, 105, 116, 101, 45, 100, 105, 114, 115, 58, 47, 98, 105, 116, 110, 97, 109, 105, 47, 112, 111, 115, 116, 103, 114, 101, 115, 113, 108>>
\* "./secrets/auth-init-prepare-write-dirs:/opt/bitnami/postgresql/secrets:ro"
X_pg_init_secrets ==
    <<46, 47, 115, 101, 99, 114, 101, 116, 115, 47, 97, 117, 116, 104, 45, 105, 110, 105, 116, 45, 112, 114, 101, 112, 97, 114, 101, 45, 119, 114, 105, 116, 101, 45, 100, 105, 114, 115, 58, 47, 111, 112, 116, 47, 98, 105, 116, 110, 97, 109, 105, 47, 112, 111, 115, 116, 103, 114, 101, 115, 113, 108, 47, 115, 101, 99, 114, 101, 116, 115, 58, 114, 111>>
\* "./data/auth-keycloak:/bitnami/postgresql"
X_pg_kc_default_data ==
    <<46, 47, 100, 97, 116, 97, 47, 97, 117, 116, 104, 45, 107, 101, 121, 99, 108, 111, 97, 107, 58, 47, 98, 105, 116, 110, 97, 109, 105, 47, 112, 111, 115, 116, 103, 114, 101, 115, 113, 108>>
\* "/srv/auth-keycloak:/bitnami/postgresql"
X_pg_kc_srv_data ==
    <<47, 115, 114, 118, 47, 97, 117, 116, 104, 45, 107, 101, 121, 99, 108, 111, 97, 107, 58, 47, 98, 105, 116, 110, 97, 109, 105, 47, 112, 111, 115, 116, 103, 114, 101, 115, 113, 108>>
\* "./secrets/auth-keycloak:/opt/bitnami/postgresql/secrets:ro"
X_pg_kc_secrets ==
    <<46, 47, 115, 101, 99, 114, 101, 116, 115, 47, 97, 117, 116, 104, 45, 107, 101, 121, 99, 108, 111, 97, 107, 58, 47, 111, 112, 116, 47, 98, 105, 116, 110, 97, 109, 105, 47, 112, 111, 115, 116, 103, 114, 101, 115, 113, 108, 47, 115, 101, 99, 114, 101, 116, 115, 58, 114, 111>>
\* "./data/cache-redis-master:/bitnami/postgresql"
X_pg_redis_default_data ==
    <<46, 47, 100, 97, 116, 97, 47, 99, 97, 99, 104, 101, 45, 114, 101, 100, 105, 115, 45, 109, 97, 115, 116, 101, 114, 58, 47, 98, 105, 116, 110, 97, 109, 105, 47, 112, 111, 115, 116, 103, 114, 101, 115, 113, 108>>
\* "/srv/cache-redis-master:/bitnami/postgresql"
X_pg_redis_srv_data ==
    <<47, 115, 114, 118, 47, 99, 97, 99, 104, 101, 45, 114, 101, 100, 105, 115, 45, 109, 97, 115, 116, 101, 114, 58, 47, 98, 105, 116, 110, 97, 109, 105, 47, 112, 111, 115, 116, 103, 114, 101, 115, 113, 108>>
\* "./secrets/cache-redis-master:/opt/bitnami/postgresql/secrets:ro"
X_pg_redis_secrets ==
    <<46, 47, 115, 101, 99, 114, 101, 116, 115, 47, 99, 97, 99, 104, 101, 45, 114, 101, 100, 105, 115, 45, 109, 97, 115, 116, 101, 114, 58, 47, 111, 112, 116, 47, 98, 105, 116, 110, 97, 109, 105, 47, 112, 111, 115, 116, 103, 114, 101, 115, 113, 108, 47, 115, 101, 99, 114, 101, 116, 115, 58, 114, 111>>

\* the two mounts of C9 written out for the four service names and for
\* volume_root unset and "/srv"
ExpectedPgVolumes(name, config) ==
    LET withRoot == "volume_root" \in DOMAIN config IN
    CASE name = N_db_postgresql ->
            <<IF withRoot THEN X_pg_db_srv_data ELSE X_pg_db_default_data,
              X_pg_db_secrets>>
      [] name = N_auth_init ->
            <<IF withRoot THEN X_pg_init_srv_data ELSE X_pg_init_default_data,
              X_pg_init_secrets>>
      [] name = N_auth_keycloak ->
            <<IF withRoot THEN X_pg_kc_srv_data ELSE X_pg_kc_default_data,
              X_pg_kc_secrets>>
      [] name = N_cache_redis_master ->
            <<IF withRoot THEN X_pg_redis_srv_data ELSE X_pg_redis_default_data,
              X_pg_redis_secrets>>

----------------------------------------------------------------------------
(* C9  Repairing a PostgreSQL service N replaces its volumes by the data   *)
(* mount and the read-only secrets mount, in that order, whatever volumes  *)
(* it had; no other field of the record and no other service changes; and  *)
(* when transform is applied again to its output the record stays as it is.*)
C9_PostgresVolumesOnly ==
    [][ (HandleStep /\ PostgresBranch(compose_services[Cur])) =>
            /\ DOMAIN compose_services' = DOMAIN compose_services
            /\ order' = order
            /\ \A n \in DOMAIN compose_services \ {Cur} :
                  compose_services'[n] = compose_services[n]
            /\ compose_services'[Cur]["volumes"]
                   = ExpectedPgVolumes(Cur, ctx.config)
            /\ DOMAIN compose_services'[Cur]
                   = DOMAIN compose_services[Cur] \cup {"volumes"}
            /\ \A f \in DOMAIN compose_services[Cur] \ {"volumes"} :
                  compose_services'[Cur][f] = compose_services[Cur][f]
            /\ calls > 1 => compose_services' = compose_services ]_vars

\* the second application has gone past a PostgreSQL service that carries
\* the two mounts, its image and its other fields
C9_Witness ==
    /\ calls = 2
    /\ pc = "loop"
    /\ i > 1
    /\ names[i - 1] \notin UserOverrides(ctx)
    /\ names[i - 1] \in DOMAIN compose_services
    /\ LET svc == compose_services[names[i - 1]] IN
          /\ PostgresBranch(svc)
          /\ svc["volumes"] = ExpectedPgVolumes(names[i - 1], ctx.config)
          /\ "entrypoint" \in DOMAIN svc
          /\ "volume_root" \in DOMAIN ctx.config

----------------------------------------------------------------------------
(* Specification SpecDispatch: one service with any kind of image          *)

\* "redis:7"
I_redis_no_vendor ==
    <<114, 101, 100, 105, 115, 58, 55>>
\* "bitnami/nginx:1.25"
I_bitnami_nginx ==
    <<98, 105, 116, 110, 97, 109, 105, 47, 110, 103, 105, 110, 120, 58, 49, 46, 50, 53>>
\* "Bitnami/Redis:7.2"
I_upper ==
    <<66, 105, 116, 110, 97, 109, 105, 47, 82, 101, 100, 105, 115, 58, 55, 46, 50>>
\* "bitnami/redis-postgresql"
I_redis_postgresql ==
    <<98, 105, 116, 110, 97, 109, 105, 47, 114, 101, 100, 105, 115, 45, 112, 111, 115, 116, 103, 114, 101, 115, 113, 108>>
\* "bitnami/postgresql-keycloak"
I_postgresql_keycloak ==
    <<98, 105, 116, 110, 97, 109, 105, 47, 112, 111, 115, 116, 103, 114, 101, 115, 113, 108, 45, 107, 101, 121, 99, 108, 111, 97, 107>>
\* "bitnami/keycloak-redis"
I_keycloak_redis ==
    <<98, 105, 116, 110, 97, 109, 105, 47, 107, 101, 121, 99, 108, 111, 97, 107, 45, 114, 101, 100, 105, 115>>
\* "bitnami/keycloak-postgresql-redis"
I_all_three ==
    <<98, 105, 116, 110, 97, 109, 105, 47, 107, 101, 121, 99, 108, 111, 97, 107, 45, 112, 111, 115, 116, 103, 114, 101, 115, 113, 108, 45, 114, 101, 100, 105, 115>>
\* "registry.example/bitnamilegacy/keycloak:26"
I_registry ==
    <<114, 101, 103, 105, 115, 116, 114, 121, 46, 101, 120, 97, 109, 112, 108, 101, 47, 98, 105, 116, 110, 97, 109, 105, 108, 101, 103, 97, 99, 121, 47, 107, 101, 121, 99, 108, 111, 97, 107, 58, 50, 54>>
\* "keycloak/bitnami"
I_fragment_first ==
    <<107, 101, 121, 99, 108, 111, 97, 107, 47, 98, 105, 116, 110, 97, 109, 105>>
\* ""
I_empty ==
    <<>>

DispatchImages ==
    {I_keycloak, I_postgresql, I_redis, I_nginx, I_redis_no_vendor,
     I_bitnami_nginx, I_upper, I_redis_postgresql, I_postgresql_keycloak,
     I_keycloak_redis, I_all_three, I_registry, I_fragment_first, I_empty}

\* the service "auth-keycloak" with any of the images, or with no image
\* field, alone or with the init service before or after it
InitDispatch ==
    /\ InitControl
    /\ \E rec \in {FullRecord(img) : img \in DispatchImages}
                      \cup {[restart |-> V_always]},
          ov \in {{}, {N_auth_keycloak}} :
          /\ order \in {<<N_auth_keycloak>>,
                        <<N_auth_keycloak, N_auth_init>>,
                        <<N_auth_init, N_auth_keycloak>>}
          /\ compose_services =
                 [n \in Range(order) |->
                     IF n = N_auth_keycloak THEN rec ELSE FullRecord(I_nginx)]
          /\ ctx = [secrets |-> ScenarioSecrets, config |-> Config(ov, FALSE)]

SpecDispatch ==
    InitDispatch /\ [][Next]_vars

----------------------------------------------------------------------------
(* C10  A handled service gets the repair of the first family, in the      *)
(* order redis, postgresql, keycloak, whose fragment its image contains    *)
(* together with "bitnami" (case-sensitive substrings); it gets no other   *)
(* repair, and services are removed only when the keycloak branch is taken.*)
C10_FirstFamilyWins ==
    [][ HandleStep =>
          LET svc == compose_services[Cur]
              new == compose_services'
          IN
          /\ ImageHas(svc, S_redis) =>
                /\ DOMAIN new = DOMAIN compose_services
                /\ new[Cur]["image"] = S_redis_7_alpine
                /\ new[Cur]["command"][1] = S_redis_server
                /\ "environment" \notin DOMAIN new[Cur]
          /\ (ImageHas(svc, S_postgresql) /\ ~ImageHas(svc, S_redis)) =>
                /\ DOMAIN new = DOMAIN compose_services
                /\ Len(new[Cur]["volumes"]) = 2
                /\ \A f \in {"image", "entrypoint", "command", "environment"} :
                      FieldSame(new[Cur], svc, f)
          /\ KeycloakBranch(svc) =>
                /\ DOMAIN new =
                       {n \in DOMAIN compose_services : ~CompanionOf(n, Cur)}
                /\ Cur \in DOMAIN new =>
                      /\ "KC_DB_PASSWORD" \in DOMAIN new[Cur]["environment"]
                      /\ \A f \in {"image", "entrypoint", "command", "volumes"} :
                            FieldSame(new[Cur], svc, f)
          /\ MatchesNoFamily(svc) => new = compose_services
          /\ DOMAIN new # DOMAIN compose_services => KeycloakBranch(svc) ]_vars

\* a service whose image names redis and keycloak has had the redis repair,
\* and the init service is still there
C10_Witness ==
    /\ pc = "loop"
    /\ i > 1
    /\ names[i - 1] = N_auth_keycloak
    /\ N_auth_keycloak \notin UserOverrides(ctx)
    /\ ImageHas(before[N_auth_keycloak], S_redis)
    /\ ImageHas(before[N_auth_keycloak], S_keycloak)
    /\ compose_services[N_auth_keycloak]["image"] = S_redis_7_alpine
    /\ N_auth_init \in DOMAIN compose_services

----------------------------------------------------------------------------
(* Specification SpecRedis: one Redis service, any name, any secrets       *)

\* "app"
T_app ==
    <<97, 112, 112>>
\* "app-redis"
N_app_redis ==
    <<97, 112, 112, 45, 114, 101, 100, 105, 115>>
\* "app-redis-master"
N_app_redis_master ==
    <<97, 112, 112, 45, 114, 101, 100, 105, 115, 45, 109, 97, 115, 116, 101, 114>>
\* "YXBwLXJlZGlz"  (base64 of "app-redis")
E_app_redis ==
    <<89, 88, 66, 119, 76, 88, 74, 108, 90, 71, 108, 122>>
\* "YXBw"  (base64 of "app")
E_app ==
    <<89, 88, 66, 119>>
\* "YXBwLXJlZGlzLW1hc3Rlcg=="  (base64 of "app-redis-master")
E_app_redis_master ==
    <<89, 88, 66, 119, 76, 88, 74, 108, 90, 71, 108, 122, 76, 87, 49, 104, 99, 51, 82, 108, 99, 103, 61, 61>>

\* the parts service names are built from
RedisNameParts ==
    {T_app, S_dash_redis, S_dash_master}

PartLists ==
    UNION {[1..n -> RedisNameParts] : n \in 1..MaxNameParts}

RECURSIVE Concat(_)
Concat(parts) ==
    IF Len(parts) = 0 THEN <<>> ELSE Head(parts) \o Concat(Tail(parts))

RedisSecretNames ==
    {N_app_redis, T_app, N_app_redis_master}

\* base64 of a secret name
Encoded(name) ==
    CASE name = N_app_redis -> E_app_redis
      [] name = T_app -> E_app
      [] name = N_app_redis_master -> E_app_redis_master

\* a Secret whose value for key, if it has one, is its own name
SecretOfKind(kind, name, key) ==
    CASE kind = "plain"   -> [kind |-> "Secret", stringData |-> (key :> name)]
      [] kind = "encoded" -> [kind |-> "Secret", data |-> (key :> Encoded(name))]
      [] kind = "blank"   -> [kind |-> "Secret", stringData |-> (key :> <<>>)]
      [] kind = "nokey"   -> [kind |-> "Secret", stringData |-> [username |-> name]]
      [] kind = "norecord" -> EmptyDict

SecretKinds ==
    {"plain", "encoded", "blank", "nokey", "norecord"}

\* the kinds of the Secrets of a Secret Store: any of the names, each with
\* a Secret of any kind
StoresOver(secretNames) ==
    UNION {[present -> SecretKinds] : present \in SUBSET secretNames}

StoreOf(kinds, key) ==
    [n \in DOMAIN kinds |-> SecretOfKind(kinds[n], n, key)]

InitRedis ==
    /\ InitControl
    /\ \E parts \in PartLists, full \in BOOLEAN :
          /\ order = <<Concat(parts)>>
          /\ compose_services =
                 (Concat(parts) :> IF full THEN FullRecord(I_redis)
                                           ELSE BareRecord(I_redis))
          /\ \E kinds \in StoresOver(RedisSecretNames) :
                ctx = [secrets |-> StoreOf(kinds, "redis-password"),
                       config |-> IF full THEN EmptyDict
                                          ELSE [volume_root |-> V_srv]]

NextRedis ==
    \/ Call
    \/ FixRedis
    \/ Return

SpecRedis ==
    InitRedis /\ [][NextRedis]_vars

\* the only service of the Service Set has been handled
Handled ==
    pc = "done" /\ Len(names) = 1

\* some line of the log is about `who` and has the message `msg`
Logged(who, msg) ==
    \E j \in 1..Len(log) : log[j].who = who /\ log[j].msg = msg

\* the secret has an entry for the key, in stringData or in data
HasKey(secret, key) ==
    \/ /\ "stringData" \in DOMAIN secret
       /\ key \in DOMAIN secret["stringData"]
    \/ /\ "data" \in DOMAIN secret
       /\ key \in DOMAIN secret["data"]

\* the record of C5 but for its command
RedisRecordButCommand(svc, name) ==
    /\ svc["image"] = S_redis_7_alpine
    /\ "entrypoint" \notin DOMAIN svc
    /\ "environment" \notin DOMAIN svc
    /\ svc["volumes"] =
           << (IF "volume_root" \in DOMAIN ctx.config
               THEN ctx.config["volume_root"] ELSE S_default_volume_root)
              \o S_slash \o name \o S_data_mount >>

----------------------------------------------------------------------------
(* C5  As claimed: the repaired Redis record has image redis:7-alpine, no  *)
(* entrypoint, the single volume "{volume_root}/N:/data", no environment,  *)
(* and the command ends with --requirepass p whenever the resolved secret  *)
(* has a value p for "redis-password"; otherwise the command is            *)
(* ["redis-server"] and a warning is logged.                               *)
C5_CommandHasAnyValueFound ==
    Handled =>
        LET N == names[1]
            svc == compose_services[N]
            f == _find_secret(ctx.secrets, RedisCandidates(N))
        IN
        /\ RedisRecordButCommand(svc, N)
        /\ IF f.found /\ HasKey(f.secret, "redis-password")
           THEN svc["command"] =
                    <<S_redis_server, S_requirepass,
                      _secret_value(f.secret, "redis-password").val>>
           ELSE /\ svc["command"] = <<S_redis_server>>
                /\ Logged(N, "no redis-password found, running without auth")

(* C5, amended: the command ends with --requirepass p whenever the         *)
(* resolved secret has a non-empty value p for "redis-password"; when no   *)
(* secret resolves, the key is missing or its value is the empty string,   *)
(* the command is ["redis-server"] and a warning is logged.                *)
C5_CommandHasNonEmptyValue ==
    Handled =>
        LET N == names[1]
            svc == compose_services[N]
            f == _find_secret(ctx.secrets, RedisCandidates(N))
        IN
        /\ RedisRecordButCommand(svc, N)
        /\ IF /\ f.found
              /\ HasKey(f.secret, "redis-password")
              /\ _secret_value(f.secret, "redis-password").val # <<>>
           THEN /\ svc["command"] =
                    <<S_redis_server, S_requirepass,
                      _secret_value(f.secret, "redis-password").val>>
                /\ ~Logged(N, "no redis-password found, running without auth")
           ELSE /\ svc["command"] = <<S_redis_server>>
                /\ Logged(N, "no redis-password found, running without auth")

\* a Redis service repaired while the secret that resolves for it holds an
\* empty redis-password
C5_Witness ==
    /\ Handled
    /\ LET f == _find_secret(ctx.secrets, RedisCandidates(names[1])) IN
          /\ f.found
          /\ HasKey(f.secret, "redis-password")
          /\ _secret_value(f.secret, "redis-password") = Some(<<>>)
    /\ compose_services[names[1]]["command"] = <<S_redis_server>>
    /\ "restart" \in DOMAIN compose_services[names[1]]

----------------------------------------------------------------------------
(* Candidate order of the Redis repair                                     *)

\* the parts the service name was built from
PartsOf(name) ==
    CHOOSE parts \in PartLists : Concat(parts) = name

\* the prefix as claimed: the suffix "-redis-master" stripped if the name
\* ends with it, otherwise the suffix "-master" stripped if it ends with it
RECURSIVE ClaimedPrefixParts(_)
ClaimedPrefixParts(parts) ==
    LET n == Len(parts) IN
    IF n >= 2 /\ parts[n - 1] = S_dash_redis /\ parts[n] = S_dash_master
    THEN SubSeq(parts, 1, n - 2)
    ELSE IF n >= 1 /\ parts[n] = S_dash_master
    THEN SubSeq(parts, 1, n - 1)
    ELSE parts

\* the first of the three candidates that is in the Secret Store
FirstOfThree(prefix, name) ==
    IF prefix \o S_dash_redis \in DOMAIN ctx.secrets
    THEN <<prefix \o S_dash_redis>>
    ELSE IF prefix \in DOMAIN ctx.secrets THEN <<prefix>>
    ELSE IF name \in DOMAIN ctx.secrets THEN <<name>>
    ELSE <<>>

\* the repair used the secret `pick` (none if pick is empty): the password
\* of the command and the log line are those of that secret, and there is
\* no password when that secret has no usable one
UsedSecret(pick) ==
    LET N == names[1]
        command == compose_services[N]["command"]
        usable == /\ pick # <<>>
                  /\ DOMAIN ctx.secrets[pick[1]] # {}
                  /\ StrTruthy(_secret_value(ctx.secrets[pick[1]],
                                             "redis-password"))
    IN
    IF usable
    THEN /\ command = <<S_redis_server, S_requirepass, pick[1]>>
         /\ \E j \in 1..Len(log) :
               /\ log[j].msg = "password set from Secret"
               /\ log[j].arg = pick[1]
    ELSE /\ command = <<S_redis_server>>
         /\ ~Logged(N, "password set from Secret")

(* C6  The secret used for a Redis service N is the first one in the       *)
(* Secret Store among P-redis, P and N, where P is N without the suffix    *)
(* "-redis-master" if N ends with it, otherwise N without the suffix       *)
(* "-master" if N ends with it, otherwise N.                               *)
C6_FirstCandidateSuffixPrefix ==
    Handled =>
        UsedSecret(FirstOfThree(Concat(ClaimedPrefixParts(PartsOf(names[1]))),
                                names[1]))

----------------------------------------------------------------------------
(* Specification SpecKeycloak: one Keycloak service, any secrets           *)

\* "my-keycloak-x"
N_keycloak_x ==
    <<109, 121, 45, 107, 101, 121, 99, 108, 111, 97, 107, 45, 120>>
\* "keycloak-sso"
N_keycloak_sso ==
    <<107, 101, 121, 99, 108, 111, 97, 107, 45, 115, 115, 111>>
\* "sso"
N_sso ==
    <<115, 115, 111>>
\* "auth-postgresql"
N_auth_postgresql ==
    <<97, 117, 116, 104, 45, 112, 111, 115, 116, 103, 114, 101, 115, 113, 108>>
\* "sso-keycloak"
N_sso_keycloak ==
    <<115, 115, 111, 45, 107, 101, 121, 99, 108, 111, 97, 107>>
\* "auth"
P_auth ==
    <<97, 117, 116, 104>>
\* "my-x"
P_my_x ==
    <<109, 121, 45, 120>>
\* "postgresql"
P_postgresql ==
    <<112, 111, 115, 116, 103, 114, 101, 115, 113, 108>>

KeycloakNames ==
    {N_auth_keycloak, S_keycloak, N_keycloak_x, N_keycloak_sso, N_sso,
     S_dash_keycloak, S_keycloak_postgresql}

KeycloakSecretNames ==
    {N_auth_keycloak, S_keycloak, N_auth_postgresql, S_keycloak_postgresql,
     N_sso_keycloak}

\* a Secret that holds both passwords (its own name), both as the empty
\* string, or neither
KeycloakSecret(kind, name) ==
    CASE kind = "plain" ->
            [kind |-> "Secret",
             stringData |-> ("admin-password" :> name) @@ ("password" :> name)]
      [] kind = "blank" ->
            [kind |-> "Secret",
             stringData |-> ("admin-password" :> <<>>) @@ ("password" :> <<>>)]
      [] kind = "nokey" ->
            [kind |-> "Secret", stringData |-> [username |-> name]]

\* a Keycloak service whose environment already has a KC_DB_PASSWORD
PresetRecord(image) ==
    [FullRecord(image) EXCEPT
        !["environment"] = ("KC_DB_PASSWORD" :> V_debug) @@ @]

InitKeycloak ==
    /\ InitControl
    /\ \E n \in KeycloakNames,
          rec \in {FullRecord(I_keycloak), BareRecord(I_keycloak),
                   PresetRecord(I_keycloak)} :
          /\ order = <<n>>
          /\ compose_services = (n :> rec)
    /\ \E kinds \in UNION {[present -> {"plain", "blank", "nokey"}] :
                               present \in SUBSET KeycloakSecretNames} :
          ctx = [secrets |-> [n \in DOMAIN kinds |-> KeycloakSecret(kinds[n], n)],
                 config |-> EmptyDict]

NextKeycloak ==
    \/ Call
    \/ FixKeycloak
    \/ Return

SpecKeycloak ==
    InitKeycloak /\ [][NextKeycloak]_vars

\* the prefix of each name of KeycloakNames, written out
ExpectedKeycloakPrefix(name) ==
    CASE name = N_auth_keycloak -> P_auth
      [] name = S_keycloak -> <<>>
      [] name = N_keycloak_x -> P_my_x
      [] name = N_keycloak_sso -> N_sso
      [] name = N_sso -> N_sso
      [] name = S_dash_keycloak -> <<>>
      [] name = S_keycloak_postgresql -> P_postgresql

\* the first candidate that is in the Secret Store, as a list of 0 or 1
RECURSIVE FirstPresent(_)
FirstPresent(candidates) ==
    IF Len(candidates) = 0 THEN <<>>
    ELSE IF Head(candidates) \in DOMAIN ctx.secrets THEN <<Head(candidates)>>
    ELSE FirstPresent(Tail(candidates))

\* the secret the admin password is looked up in
AdminPick(name) ==
    LET P == ExpectedKeycloakPrefix(name) IN
    FirstPresent((IF P # <<>> THEN <<P \o S_dash_keycloak>> ELSE <<>>)
                 \o <<name, S_keycloak>>)

\* the secret the database password is looked up in
DbPick(name) ==
    LET P == ExpectedKeycloakPrefix(name) IN
    FirstPresent((IF P # <<>> THEN <<P \o S_dash_postgresql>> ELSE <<>>)
                 \o <<S_keycloak_postgresql>>)

\* the record is `old` with the variables of `set` put in its environment,
\* and nothing else changed; with nothing to set it is `old`
EnvironmentGained(new, old, set) ==
    IF DOMAIN set = {} THEN new = old
    ELSE /\ DOMAIN new = DOMAIN old \cup {"environment"}
         /\ \A f \in DOMAIN old \ {"environment"} : new[f] = old[f]
         /\ LET oldEnv == IF "environment" \in DOMAIN old
                          THEN old["environment"] ELSE EmptyDict
            IN
            /\ DOMAIN new["environment"] = DOMAIN oldEnv \cup DOMAIN set
            /\ \A v \in DOMAIN set : new["environment"][v] = set[v]
            /\ \A v \in DOMAIN oldEnv \ DOMAIN set :
                  new["environment"][v] = oldEnv[v]

\* the variables to set: var gets the value of key in the picked secret
\* when Usable says that the secret has one
ToSet(pick, key, var, Usable(_, _)) ==
    IF pick # <<>> /\ Usable(ctx.secrets[pick[1]], key)
    THEN (var :> ctx.secrets[pick[1]]["stringData"][key])
    ELSE EmptyDict

HasNonEmpty(secret, key) ==
    HasKey(secret, key) /\ secret["stringData"][key] # <<>>

----------------------------------------------------------------------------
(* C7  As claimed: KC_BOOTSTRAP_ADMIN_PASSWORD is set exactly when the     *)
(* first existing secret among P-keycloak (P non-empty), N, "keycloak" has *)
(* a value for "admin-password", and KC_DB_PASSWORD exactly when the first *)
(* existing secret among P-postgresql (P non-empty), "keycloak-postgresql" *)
(* has a value for "password"; each is set to that value, and every other  *)
(* environment entry and every other field of the record is unchanged.     *)
C7_SetWhenAnyValue ==
    Handled =>
        LET N == names[1] IN
        EnvironmentGained(
            compose_services[N], before[N],
            ToSet(AdminPick(N), "admin-password",
                  "KC_BOOTSTRAP_ADMIN_PASSWORD", HasKey)
            @@ ToSet(DbPick(N), "password", "KC_DB_PASSWORD", HasKey))

(* C7, amended: each variable is set exactly when that secret has a        *)
(* non-empty value for the key; an empty value leaves the variable as it   *)
(* was, like a missing key or a missing secret.                            *)
C7_SetWhenNonEmptyValue ==
    Handled =>
        LET N == names[1] IN
        EnvironmentGained(
            compose_services[N], before[N],
            ToSet(AdminPick(N), "admin-password",
                  "KC_BOOTSTRAP_ADMIN_PASSWORD", HasNonEmpty)
            @@ ToSet(DbPick(N), "password", "KC_DB_PASSWORD", HasNonEmpty))

\* a Keycloak service with a prefix, handled with an admin secret whose
\* password is empty and a database secret whose password is not: only
\* KC_DB_PASSWORD is set, over the value it had, and BITNAMI_DEBUG is kept
C7_Witness ==
    /\ Handled
    /\ names[1] = N_auth_keycloak
    /\ AdminPick(names[1]) = <<N_auth_keycloak>>
    /\ ctx.secrets[N_auth_keycloak] = KeycloakSecret("blank", N_auth_keycloak)
    /\ before[names[1]] = PresetRecord(I_keycloak)
    /\ DOMAIN compose_services[names[1]]["environment"]
           = {"KC_DB_PASSWORD", "BITNAMI_DEBUG"}
    /\ compose_services[names[1]]["environment"]["KC_DB_PASSWORD"]
           = N_auth_postgresql

----------------------------------------------------------------------------
(* Specification SpecSecret: _secret_value on any Secret Record            *)

MaxDataLen ==
    5

\* one call of _secret_value(sv.secret, sv.key)
SecretValue ==
    /\ pc = "lookup"
    /\ sv' = [sv EXCEPT !.ret = _secret_value(sv.secret, sv.key)]
    /\ pc' = "looked"
    /\ UNCHANGED <<compose_services, order, ctx, names, i, log, calls, before>>

\* "hi"
D_hi ==
    <<104, 105>>
\* "aGk="
D_aGk_pad ==
    <<97, 71, 107, 61>>
\* "w6k="
D_e_acute_b64 ==
    <<119, 54, 107, 61>>
\* "4oKs"
D_euro_b64 ==
    <<52, 111, 75, 115>>
\* "/w=="
D_ff_b64 ==
    <<47, 119, 61, 61>>
\* "czNjcmV0"
D_s3cret_b64 ==
    <<99, 122, 78, 106, 99, 109, 86, 48>>
\* "not base64!"
D_not_base64 ==
    <<110, 111, 116, 32, 98, 97, 115, 101, 54, 52, 33>>
\* "aGk=" and a line feed
D_wrapped ==
    <<97, 71, 107, 61, 10>>
\* "é"
D_e_acute ==
    <<233>>
\* "€"
D_euro ==
    <<8364>>

\* 'a', 'G', 'k', '=' and '!'
DataAlphabet ==
    {97, 71, 107, 61, 33}

RECURSIVE StringsUpTo(_)
StringsUpTo(n) ==
    IF n = 0 THEN {<<>>}
    ELSE LET shorter == StringsUpTo(n - 1) IN
         shorter \cup {Append(t, c) : t \in {u \in shorter : Len(u) = n - 1},
                                      c \in DataAlphabet}

ChosenData ==
    {D_aGk_pad, D_e_acute_b64, D_euro_b64, D_ff_b64, D_s3cret_b64,
     D_not_base64, D_wrapped, D_e_acute}

DataStrings ==
    StringsUpTo(MaxDataLen) \cup ChosenData

PlainStrings ==
    {<<>>, D_hi, D_aGk_pad}

SecretRecords ==
    {[data |-> ("password" :> d)] : d \in DataStrings}
    \cup {[stringData |-> ("password" :> p), data |-> ("password" :> d)] :
              p \in PlainStrings, d \in ChosenData}
    \cup {[stringData |-> ("username" :> p), data |-> ("password" :> d)] :
              p \in PlainStrings, d \in ChosenData}
    \cup {[stringData |-> ("password" :> p), data |-> ("username" :> d)] :
              p \in PlainStrings, d \in ChosenData}
    \cup {[stringData |-> ("password" :> p)] : p \in PlainStrings}
    \cup {[data |-> ("username" :> d)] : d \in ChosenData}
    \cup {EmptyDict, [stringData |-> EmptyDict, data |-> EmptyDict]}

InitSecret ==
    /\ compose_services = EmptyDict
    /\ order = <<>>
    /\ ctx = [secrets |-> EmptyDict, config |-> EmptyDict]
    /\ names = <<>>
    /\ i = 1
    /\ log = <<>>
    /\ calls = 0
    /\ before = EmptyDict
    /\ pc = "lookup"
    /\ \E secret \in SecretRecords :
          sv = [secret |-> secret, key |-> "password", ret |-> None]

NextSecret ==
    SecretValue

SpecSecret ==
    InitSecret /\ [][NextSecret]_vars

\* the base64 alphabet of RFC 4648, in the order of its values 0..63
Base64Alphabet ==
    [k \in 1..64 |->
        IF k <= 26 THEN 64 + k
        ELSE IF k <= 52 THEN 70 + k
        ELSE IF k <= 62 THEN k - 5
        ELSE IF k = 63 THEN 43
        ELSE 47]

InAlphabet(c) ==
    \E k \in 1..64 : Base64Alphabet[k] = c

SextetOf(c) ==
    (CHOOSE k \in 1..64 : Base64Alphabet[k] = c) - 1

\* base64 as RFC 4648 defines it: quads of alphabet characters, the last
\* one ending in at most two '='
ValidBase64(d) ==
    /\ Len(d) % 4 = 0
    /\ \A j \in 1..Len(d) :
          \/ InAlphabet(d[j])
          \/ d[j] = 61 /\ j >= Len(d) - 1 /\ (j = Len(d) - 1 => d[Len(d)] = 61)

\* the positions of d that hold alphabet characters before position n
AlphabetBefore(d, n) ==
    {j \in 1..(n - 1) : j <= Len(d) /\ InAlphabet(d[j])}

\* an '=' at position n ends the data: it is the fourth character of its
\* quad, or the third and fourth are both '='
PaddingEndsAt(d, n) ==
    /\ d[n] = 61
    /\ LET q == Cardinality(AlphabetBefore(d, n)) % 4 IN
       \/ q = 3
       \/ /\ q = 2
          /\ \E j \in 1..(n - 1) :
                d[j] = 61 /\ \A m \in j..n : ~InAlphabet(d[m])

\* where the decoder stops reading d
DataEnd(d) ==
    IF \E n \in 1..Len(d) : PaddingEndsAt(d, n)
    THEN CHOOSE n \in 1..Len(d) :
            PaddingEndsAt(d, n) /\ \A m \in 1..(n - 1) : ~PaddingEndsAt(d, m)
    ELSE Len(d) + 1

\* the decoder takes d: d is ASCII and, with every character outside the
\* alphabet left out, ends with a full quad or with the padding of one
Decodable(d) ==
    /\ \A j \in 1..Len(d) : d[j] <= 127
    /\ \/ DataEnd(d) <= Len(d)
       \/ Cardinality(AlphabetBefore(d, Len(d) + 1)) % 4 = 0

\* the values of the alphabet characters of d that are read, in order
Sextets(d) ==
    LET P == AlphabetBefore(d, DataEnd(d)) IN
    [k \in 1..Cardinality(P) |->
        SextetOf(d[CHOOSE j \in P : Cardinality({m \in P : m < j}) = k - 1])]

\* the bytes that a list of six-bit values spells
BytesOf(sx) ==
    [k \in 1..((Len(sx) * 6) \div 8) |->
        LET bit == 8 * (k - 1)
            j == (bit \div 6) + 1
            r == bit % 6
        IN ((sx[j] * 64 + sx[j + 1]) \div (2 ^ (4 - r))) % 256]

\* data values whose bytes are UTF-8 beyond ASCII, with their text
KnownText ==
    (D_e_acute_b64 :> D_e_acute) @@ (D_euro_b64 :> D_euro)

\* what a data value d is to yield: d itself when it is not decodable or
\* its bytes are not UTF-8, the text of the bytes otherwise
ExpectedFromData(d) ==
    IF ~Decodable(d) THEN d
    ELSE LET b == BytesOf(Sextets(d)) IN
         IF \A k \in 1..Len(b) : b[k] <= 127 THEN b
         ELSE IF d \in DOMAIN KnownText THEN KnownText[d]
         ELSE d

Looked ==
    pc = "looked"

----------------------------------------------------------------------------
(* C8  As claimed: _secret_value returns the stringData value if the key   *)
(* is there, otherwise for a data value under the key the stored string    *)
(* unchanged whenever that string is not valid base64, otherwise absent.   *)
C8_RawWhenNotValidBase64 ==
    Looked =>
        LET sd == SubMapping(sv.secret, "stringData")
            da == SubMapping(sv.secret, "data")
        IN
        IF sv.key \in DOMAIN sd THEN sv.ret = Some(sd[sv.key])
        ELSE IF sv.key \in DOMAIN da
        THEN ~ValidBase64(da[sv.key]) => sv.ret = Some(da[sv.key])
        ELSE sv.ret = None

(* C8, amended: _secret_value returns the stringData value if the key is   *)
(* there; otherwise, for a data value under the key, the stored string     *)
(* unchanged exactly when the lenient decoder rejects it (a non-ASCII      *)
(* character, or data that ends inside a quad once the characters outside  *)
(* the alphabet are left out) or its bytes are not UTF-8, and the text of  *)
(* the decoded bytes in every other case, valid base64 or not; otherwise   *)
(* absent.                                                                 *)
C8_RawWhenDecoderRejects ==
    Looked =>
        LET sd == SubMapping(sv.secret, "stringData")
            da == SubMapping(sv.secret, "data")
        IN
        IF sv.key \in DOMAIN sd THEN sv.ret = Some(sd[sv.key])
        ELSE IF sv.key \in DOMAIN da
        THEN sv.ret = Some(ExpectedFromData(da[sv.key]))
        ELSE sv.ret = None

\* a data value with a character outside the alphabet, "a!Gk=", which is
\* not valid base64: it was decoded to "hi", not returned as stored
C8_Witness ==
    /\ Looked
    /\ sv.secret = [data |-> ("password" :> <<97, 33, 71, 107, 61>>)]
    /\ ~ValidBase64(sv.secret["data"]["password"])
    /\ sv.ret = Some(D_hi)

====
